---- MODULE Spec2Model ----
(***************************************************************************)
(* Model of ethnographers::proposed_dates (src/src/lib.rs).                *)
(*                                                                         *)
(* proposed_dates builds a directed graph over the events Birth(i) and     *)
(* Death(i) of n persons, adds one edge per person and one or two edges    *)
(* per fact, sorts the graph topologically and numbers the events by their *)
(* position in the order.  The model follows the function statement by     *)
(* statement; the topological sort is the depth-first sort of the graph    *)
(* library, with every tie (which root is started next, in which order the *)
(* successors of a node are pushed) left open.                             *)
(***************************************************************************)
EXTENDS Integers, Sequences, FiniteSets, TLC

\* Largest number of persons n of an enumerated input.
MaxN == 2
\* Largest total number of facts (both forms together) of an enumerated input.
MaxFacts == 2

VARIABLES
    n,            \* parameter n
    fact_form1,   \* parameter fact_form1: sequence of pairs <<a, b>>
    fact_form2,   \* parameter fact_form2: sequence of pairs <<a, b>>
    pc,           \* position inside proposed_dates
    g,            \* the DiGraph: [nodes: sequence of labels, edges: sequence of <<source, target>>]
    birth_nodes,  \* birth_nodes[i] is the NodeIndex of the node labelled Birth(i)
    death_nodes,  \* death_nodes[i] is the NodeIndex of the node labelled Death(i)
    k,            \* 1-based position of the running for loop over a fact list
    discovered,   \* toposort: the depth-first search's discovered map
    finished,     \* toposort: the finished map
    stack,        \* toposort: the depth-first search's stack (top is the last element)
    finish_stack, \* toposort: nodes in the order they were finished
    topo,         \* value of toposort(&g, None): [ok: BOOLEAN, order: sequence of NodeIndex]
    result,       \* what the call produced: Some((birth, death)), None, or a panic
    prev          \* the caller's record of an earlier call on the related input

vars == <<n, fact_form1, fact_form2, pc, g, birth_nodes, death_nodes, k,
          discovered, finished, stack, finish_stack, topo, result, prev>>

-----------------------------------------------------------------------------
(* Data *)

\* enum Label { Birth(usize), Death(usize) }
Birth(i) == <<"Birth", i>>
Death(i) == <<"Death", i>>

\* DiGraph::new()
EmptyGraph == [nodes |-> <<>>, edges |-> <<>>]

\* NodeIndex values are 0-based: add_node returns the node count before the insertion.
NodeIds(gr) == 0 .. (Len(gr.nodes) - 1)

\* g[event]: the label stored in a node.
LabelOf(gr, x) == gr.nodes[x + 1]

Range(s) == {s[x] : x \in 1 .. Len(s)}

\* The pending / None / Some / panic outcomes of one call, in one record shape.
Pending == [tag |-> "pending", birth |-> <<>>, death |-> <<>>, kind |-> "-"]
NoneResult == [tag |-> "None", birth |-> <<>>, death |-> <<>>, kind |-> "-"]
SomeResult(b, d) == [tag |-> "Some", birth |-> b, death |-> d, kind |-> "-"]
Panic(kind) == [tag |-> "panic", birth |-> <<>>, death |-> <<>>, kind |-> kind]

-----------------------------------------------------------------------------
(* Index arithmetic: (i - 1) as usize, then Vec indexing *)

\* A usize too large for a TLC integer is kept as two 16-bit-limb pairs
\* <<high, low>> with value high * 2^16 + low; every value met here has
\* high = 0 except the wrapped 0u32 - 1 = 2^32 - 1 = <<65535, 65535>>.
Limb == 65536

\* Variant: `i.saturating_sub(1)`, which neither panics nor wraps.
Sub1Saturating(i) ==
    {[panic |-> FALSE, val |-> <<0, IF i = 0 THEN 0 ELSE i - 1>>]}

\* The outcomes of `i - 1` on a u32: with overflow checks (debug builds) 0 - 1
\* panics, without them (release builds) it wraps to u32::MAX.
Sub1Outcomes(i) ==
    IF i = 0
    THEN {[panic |-> TRUE, val |-> <<0, 0>>],
          [panic |-> FALSE, val |-> <<Limb - 1, Limb - 1>>]}
    ELSE {[panic |-> FALSE, val |-> <<(i - 1) \div Limb, (i - 1) % Limb>>]}

\* Vec indexing v[idx]: in bounds iff idx < v.len().
InBounds(v, idx) == idx[1] = 0 /\ idx[2] < Len(v)
VecGet(v, idx) == v[idx[2] + 1]

\* The ways evaluating v[(i - 1) as usize] can end: a value, or a panic.
IndexOutcomes(v, i) ==
    {IF o.panic THEN [panic |-> "overflow", val |-> 0]
     ELSE IF InBounds(v, o.val) THEN [panic |-> "none", val |-> VecGet(v, o.val)]
     ELSE [panic |-> "oob", val |-> 0] : o \in Sub1Outcomes(i)}

-----------------------------------------------------------------------------
(* Graph construction (lib.rs lines 28-60) *)

\* DiGraph::add_node: appends the node, its NodeIndex is the old node count.
AddNode(gr, label) == [gr EXCEPT !.nodes = Append(@, label)]

\* Variant: an edge already present is not added again.
AddEdgeOnce(gr, a, b) ==
    IF \E e \in 1 .. Len(gr.edges) : gr.edges[e] = <<a, b>>
    THEN gr
    ELSE [gr EXCEPT !.edges = Append(@, <<a, b>>)]

\* DiGraph::add_edge: appends the edge; parallel edges are allowed.
AddEdge(gr, a, b) == [gr EXCEPT !.edges = Append(@, <<a, b>>)]

RECURSIVE AddEdges(_, _)
AddEdges(gr, es) ==
    IF es = <<>> THEN gr
    ELSE AddEdges(AddEdge(gr, es[1][1], es[1][2]), Tail(es))

\* (i..=m).map(|i| g.add_node(Label::Birth(i))) or (.. Label::Death(i) ..),
\* by `kind`: the graph afterwards.
RECURSIVE AddLabelled(_, _, _, _)
AddLabelled(gr, kind, i, m) ==
    IF i > m THEN gr
    ELSE AddLabelled(AddNode(gr, <<kind, i>>), kind, i + 1, m)

\* .collect(): the NodeIndex vector of m nodes added to a graph of `base` nodes.
CollectedIds(base, m) == [i \in 1 .. m |-> base + i - 1]

\* Variant: the edge of every person points from death to birth.
PersonEdgesSwapped(bn, dn, m) == [i \in 1 .. m |-> <<dn[i], bn[i]>>]

\* Variant: `for i in 1..n`, which leaves out the last person.
PersonEdgesExclusive(bn, dn, m) == [i \in 1 .. (m - 1) |-> <<bn[i], dn[i]>>]

\* for i in 1..=n { g.add_edge(birth_nodes[i - 1], death_nodes[i - 1], ()) }
PersonEdges(bn, dn, m) == [i \in 1 .. m |-> <<bn[i], dn[i]>>]

\* Variant: the form-1 edge with its ends exchanged.
Form1EdgeReversed(da, bb) == <<bb, da>>

\* The edge a form-1 fact (a, b) adds, from death_nodes[a - 1] and birth_nodes[b - 1].
Form1Edge(da, bb) == <<da, bb>>

\* Variant: the second form-2 edge with its ends exchanged.
Form2SecondReversed(bb, da) == <<da, bb>>

\* The edges a form-2 fact (a, b) adds, in order.
Form2First(ba, db) == <<ba, db>>
Form2Second(bb, da) == <<bb, da>>

\* One iteration of the form-1 loop on fact f: the graphs / panics it can end in.
\* death_nodes[(i - 1)] is evaluated before birth_nodes[(j - 1)].
Form1Outcomes(gr, bn, dn, f) ==
    {IF a.panic # "none" THEN [panic |-> a.panic, g |-> gr]
     ELSE IF b.panic # "none" THEN [panic |-> b.panic, g |-> gr]
     ELSE [panic |-> "none", g |-> AddEdge(gr, Form1Edge(a.val, b.val)[1], Form1Edge(a.val, b.val)[2])] :
        a \in IndexOutcomes(dn, f[1]), b \in IndexOutcomes(bn, f[2])}

\* One iteration of the form-2 loop on fact f: two add_edge calls, each with
\* its two index expressions evaluated left to right.
Form2Outcomes(gr, bn, dn, f) ==
    {IF a1.panic # "none" THEN [panic |-> a1.panic, g |-> gr]
     ELSE IF b1.panic # "none" THEN [panic |-> b1.panic, g |-> gr]
     ELSE LET g1 == AddEdge(gr, Form2First(a1.val, b1.val)[1], Form2First(a1.val, b1.val)[2])
          IN  IF a2.panic # "none" THEN [panic |-> a2.panic, g |-> g1]
              ELSE IF b2.panic # "none" THEN [panic |-> b2.panic, g |-> g1]
              ELSE [panic |-> "none",
                    g |-> AddEdge(g1, Form2Second(a2.val, b2.val)[1], Form2Second(a2.val, b2.val)[2])] :
        a1 \in IndexOutcomes(bn, f[1]), b1 \in IndexOutcomes(dn, f[2]),
        a2 \in IndexOutcomes(bn, f[2]), b2 \in IndexOutcomes(dn, f[1])}

-----------------------------------------------------------------------------
(* Topological sort (the call at lib.rs line 62) *)

\* Indices of the edges leaving x / entering x.
OutEdges(gr, x) == {e \in 1 .. Len(gr.edges) : gr.edges[e][1] = x}
InEdges(gr, x) == {e \in 1 .. Len(gr.edges) : gr.edges[e][2] = x}

\* Every order in which the targets of the edges in E can be listed, one
\* entry per edge (parallel edges give repeated entries).
RECURSIVE TargetOrders(_, _)
TargetOrders(gr, E) ==
    IF E = {} THEN {<<>>}
    ELSE UNION {{<<t>> \o rest :
                    rest \in TargetOrders(gr, E \ {CHOOSE e \in E : gr.edges[e][2] = t})} :
                t \in {gr.edges[e][2] : e \in E}}

Reverse(s) == [x \in 1 .. Len(s) |-> s[Len(s) + 1 - x]]

Top(s) == s[Len(s)]
Pop(s) == SubSeq(s, 1, Len(s) - 1)

\* Variant: the visit stops after pushing one successor.
PushesFirstOnly(gr, nx, disc) ==
    LET E == {e \in OutEdges(gr, nx) : gr.edges[e][2] \notin disc}
    IN  IF E = {} THEN {<<>>} ELSE {<<gr.edges[e][2]>> : e \in E}

\* What a first visit of nx can push: the targets of its out-edges that are not
\* discovered, one push per edge, in any order.
Pushes(gr, nx, disc) ==
    TargetOrders(gr, {e \in OutEdges(gr, nx) : gr.edges[e][2] \notin disc})

\* The finish stack after nx is popped for the second time.
Finish(fs, nx) == Append(fs, nx)

\* The second pass over the reversed finish stack: walking the reversed graph
\* from each node in turn must meet no node that was not walked before it.
IsTopological(gr, order) ==
    \A p \in 1 .. Len(order) :
        \A e \in InEdges(gr, order[p]) :
            \E q \in 1 .. p : order[q] = gr.edges[e][1]

-----------------------------------------------------------------------------
(* Result projection (lib.rs lines 62-76) *)

\* vec![0; n]
Zeros(m) == [i \in 1 .. m |-> 0]

\* Variant: both arms write proposed_births.
AssignBirthOnly(acc, label, date) ==
    [acc EXCEPT !.birth[label[2]] = date + 1]

\* Variant: the 0-based position is stored, without the + 1.
AssignZeroBased(acc, label, date) ==
    IF label[1] = "Birth"
    THEN [acc EXCEPT !.birth[label[2]] = date]
    ELSE [acc EXCEPT !.death[label[2]] = date]

\* The match on the label: Birth(i) => proposed_births[i - 1] = date + 1,
\* Death(i) => proposed_deaths[i - 1] = date + 1.
Assign(acc, label, date) ==
    IF label[1] = "Birth"
    THEN [acc EXCEPT !.birth[label[2]] = date + 1]
    ELSE [acc EXCEPT !.death[label[2]] = date + 1]

\* for (date, &event) in topo.iter().enumerate(), from position `date` (0-based) on.
RECURSIVE AssignDates(_, _, _, _)
AssignDates(acc, gr, order, date) ==
    IF date >= Len(order) THEN acc
    ELSE AssignDates(Assign(acc, LabelOf(gr, order[date + 1]), date), gr, order, date + 1)

\* Variant: `.unwrap_or_default()` in place of `.ok().map(..)`: an error is
\* treated as an empty order.
MapResultOrDefault(t, gr, m) ==
    LET acc == AssignDates([birth |-> Zeros(m), death |-> Zeros(m)], gr, t.order, 0)
    IN  SomeResult(acc.birth, acc.death)

\* toposort(&g, None).ok().map(|topo| ...)
MapResult(t, gr, m) ==
    IF t.ok
    THEN LET acc == AssignDates([birth |-> Zeros(m), death |-> Zeros(m)], gr, t.order, 0)
         IN  SomeResult(acc.birth, acc.death)
    ELSE NoneResult

-----------------------------------------------------------------------------
(* Inputs *)

\* Person indices an enumerated fact may name: 1..m, and the out-of-range 0 and m + 1.
Indices(m) == 0 .. (m + 1)
Pairs(m) == Indices(m) \X Indices(m)

\* The inputs of the test and of main.rs: n = 6 and the fixed fact lists.
ExampleN == 6
ExampleForm1 == <<<<1, 2>>, <<3, 4>>, <<4, 6>>>>
ExampleForm2 == <<<<2, 3>>, <<5, 6>>>>

InRange(m, f1, f2) ==
    \A f \in Range(f1) \cup Range(f2) : f[1] \in 1 .. m /\ f[2] \in 1 .. m

Init ==
    /\ \/ /\ n \in 0 .. MaxN
          /\ \E l1 \in 0 .. MaxFacts : \E l2 \in 0 .. (MaxFacts - l1) :
                /\ fact_form1 \in [1 .. l1 -> Pairs(n)]
                /\ fact_form2 \in [1 .. l2 -> Pairs(n)]
       \/ /\ n = ExampleN
          /\ fact_form1 = ExampleForm1
          /\ fact_form2 = ExampleForm2
    /\ pc = "nodes"
    /\ g = EmptyGraph
    /\ birth_nodes = <<>>
    /\ death_nodes = <<>>
    /\ k = 0
    /\ discovered = {}
    /\ finished = {}
    /\ stack = <<>>
    /\ finish_stack = <<>>
    /\ topo = [ok |-> FALSE, order |-> <<>>]
    /\ result = Pending
    /\ prev = [tag |-> "pending", rel |-> "first"]

-----------------------------------------------------------------------------
(* proposed_dates, statement by statement *)

dfsVars == <<discovered, finished, stack, finish_stack>>
inputVars == <<n, fact_form1, fact_form2, prev>>

\* lines 28-32: the graph and its 2n nodes.
BuildNodes ==
    /\ pc = "nodes"
    /\ g' = AddLabelled(AddLabelled(EmptyGraph, "Birth", 1, n), "Death", 1, n)
    /\ birth_nodes' = CollectedIds(0, n)
    /\ death_nodes' = CollectedIds(n, n)
    /\ pc' = "persons"
    /\ UNCHANGED <<inputVars, k, dfsVars, topo, result>>

\* lines 34-37: the edge (B(i), D(i)) of every person.
BuildPersonEdges ==
    /\ pc = "persons"
    /\ g' = AddEdges(g, PersonEdges(birth_nodes, death_nodes, n))
    /\ pc' = "form1"
    /\ k' = 1
    /\ UNCHANGED <<inputVars, birth_nodes, death_nodes, dfsVars, topo, result>>

\* lines 40-46: one iteration of the loop over fact_form1.
BuildForm1 ==
    /\ pc = "form1"
    /\ k <= Len(fact_form1)
    /\ \E o \in Form1Outcomes(g, birth_nodes, death_nodes, fact_form1[k]) :
          /\ g' = o.g
          /\ IF o.panic = "none"
             THEN pc' = "form1" /\ k' = k + 1 /\ result' = result
             ELSE pc' = "done" /\ k' = k /\ result' = Panic(o.panic)
    /\ UNCHANGED <<inputVars, birth_nodes, death_nodes, dfsVars, topo>>

\* line 46: the loop over fact_form1 is exhausted.
EndForm1 ==
    /\ pc = "form1"
    /\ k > Len(fact_form1)
    /\ pc' = "form2"
    /\ k' = 1
    /\ UNCHANGED <<inputVars, g, birth_nodes, death_nodes, dfsVars, topo, result>>

\* lines 49-60: one iteration of the loop over fact_form2.
BuildForm2 ==
    /\ pc = "form2"
    /\ k <= Len(fact_form2)
    /\ \E o \in Form2Outcomes(g, birth_nodes, death_nodes, fact_form2[k]) :
          /\ g' = o.g
          /\ IF o.panic = "none"
             THEN pc' = "form2" /\ k' = k + 1 /\ result' = result
             ELSE pc' = "done" /\ k' = k /\ result' = Panic(o.panic)
    /\ UNCHANGED <<inputVars, birth_nodes, death_nodes, dfsVars, topo>>

\* line 62: the loop over fact_form2 is exhausted and toposort is entered.
EnterToposort ==
    /\ pc = "form2"
    /\ k > Len(fact_form2)
    /\ pc' = "toposort"
    /\ discovered' = {}
    /\ finished' = {}
    /\ stack' = <<>>
    /\ finish_stack' = <<>>
    /\ UNCHANGED <<inputVars, g, birth_nodes, death_nodes, k, topo, result>>

\* toposort: the search is started from a node not discovered yet.
TopoRoot ==
    /\ pc = "toposort"
    /\ stack = <<>>
    /\ \E i \in NodeIds(g) \ discovered : stack' = <<i>>
    /\ UNCHANGED <<inputVars, g, birth_nodes, death_nodes, k, discovered, finished,
                   finish_stack, topo, result, pc>>

\* toposort: first visit of the node on top of the stack. A self-loop ends the
\* sort with a cycle; otherwise the undiscovered successors are pushed.
TopoVisit ==
    /\ pc = "toposort"
    /\ stack # <<>>
    /\ Top(stack) \notin discovered
    /\ LET nx == Top(stack)
           disc == discovered \cup {nx}
       IN  /\ discovered' = disc
           /\ IF \E e \in OutEdges(g, nx) : g.edges[e][2] = nx
              THEN /\ topo' = [ok |-> FALSE, order |-> <<>>]
                   /\ pc' = "map"
                   /\ stack' = stack
              ELSE /\ \E pushed \in Pushes(g, nx, disc) : stack' = stack \o pushed
                   /\ UNCHANGED <<topo, pc>>
    /\ UNCHANGED <<inputVars, g, birth_nodes, death_nodes, k, finished, finish_stack, result>>

\* toposort: the node on top was discovered before; it is popped, and finished
\* if this is the first time.
TopoPop ==
    /\ pc = "toposort"
    /\ stack # <<>>
    /\ Top(stack) \in discovered
    /\ stack' = Pop(stack)
    /\ IF Top(stack) \notin finished
       THEN /\ finished' = finished \cup {Top(stack)}
            /\ finish_stack' = Finish(finish_stack, Top(stack))
       ELSE UNCHANGED <<finished, finish_stack>>
    /\ UNCHANGED <<inputVars, g, birth_nodes, death_nodes, k, discovered, topo, result, pc>>

\* toposort: every node is finished; the reversed finish stack is checked
\* against the reversed graph and returned, or a cycle is reported.
TopoCheck ==
    /\ pc = "toposort"
    /\ stack = <<>>
    /\ NodeIds(g) \subseteq discovered
    /\ LET order == Reverse(finish_stack)
       IN  topo' = IF IsTopological(g, order)
                   THEN [ok |-> TRUE, order |-> order]
                   ELSE [ok |-> FALSE, order |-> <<>>]
    /\ pc' = "map"
    /\ UNCHANGED <<inputVars, g, birth_nodes, death_nodes, k, dfsVars, result>>

\* lines 62-76: .ok().map(...) turns the order into the dates, an error into None.
Project ==
    /\ pc = "map"
    /\ result' = MapResult(topo, g, n)
    /\ pc' = "done"
    /\ UNCHANGED <<inputVars, g, birth_nodes, death_nodes, k, dfsVars, topo>>

-----------------------------------------------------------------------------
(* The caller: a second call, on the same input or on the input with one of *)
(* its facts repeated                                                       *)

Restart ==
    /\ pc' = "nodes"
    /\ g' = EmptyGraph
    /\ birth_nodes' = <<>>
    /\ death_nodes' = <<>>
    /\ k' = 0
    /\ discovered' = {}
    /\ finished' = {}
    /\ stack' = <<>>
    /\ finish_stack' = <<>>
    /\ topo' = [ok |-> FALSE, order |-> <<>>]
    /\ result' = Pending

CallAgain ==
    /\ pc = "done"
    /\ prev.rel = "first"
    /\ prev' = [tag |-> result.tag, rel |-> "same"]
    /\ Restart
    /\ UNCHANGED <<n, fact_form1, fact_form2>>

CallWithDuplicate ==
    /\ pc = "done"
    /\ prev.rel = "first"
    /\ prev' = [tag |-> result.tag, rel |-> "dup"]
    /\ \/ \E x \in 1 .. Len(fact_form1) :
             /\ fact_form1' = Append(fact_form1, fact_form1[x])
             /\ fact_form2' = fact_form2
       \/ \E x \in 1 .. Len(fact_form2) :
             /\ fact_form2' = Append(fact_form2, fact_form2[x])
             /\ fact_form1' = fact_form1
    /\ Restart
    /\ UNCHANGED n

Next ==
    \/ BuildNodes
    \/ BuildPersonEdges
    \/ BuildForm1
    \/ EndForm1
    \/ BuildForm2
    \/ EnterToposort
    \/ TopoRoot
    \/ TopoVisit
    \/ TopoPop
    \/ TopoCheck
    \/ Project
    \/ CallAgain
    \/ CallWithDuplicate

Spec == Init /\ [][Next]_vars

-----------------------------------------------------------------------------
(* What the facts demand, stated on the input alone *)

Events(m) == {Birth(i) : i \in 1 .. m} \cup {Death(i) : i \in 1 .. m}

\* The pairs <<e1, e2>> of events with "e1 is dated strictly before e2" demanded
\* by the lifespans, the form-1 facts and the form-2 facts.
Required(m, f1, f2) ==
    {<<Birth(i), Death(i)>> : i \in 1 .. m}
    \cup {<<Death(f[1]), Birth(f[2])>> : f \in Range(f1)}
    \cup {<<Birth(f[1]), Death(f[2])>> : f \in Range(f2)}
    \cup {<<Birth(f[2]), Death(f[1])>> : f \in Range(f2)}

Satisfies(date, R) == \A r \in R : date[r[1]] < date[r[2]]

\* Some assignment of dates 1..2m to the events satisfies every demand.
ExistsAssignment(m, R) == \E date \in [Events(m) -> 1 .. 2 * m] : Satisfies(date, R)

RECURSIVE TransitiveClosure(_)
TransitiveClosure(R) ==
    LET comp == R \cup {<<a[1], b[2]>> : <<a, b>> \in {pr \in R \X R : pr[1][2] = pr[2][1]}}
    IN  IF comp = R THEN R ELSE TransitiveClosure(comp)

Acyclic(R) == \A r \in TransitiveClosure(R) : r[1] # r[2]

\* The dates a Some result gives to the events.
DateOf(res) ==
    [e \in Events(Len(res.birth)) |->
        IF e[1] = "Birth" THEN res.birth[e[2]] ELSE res.death[e[2]]]

Returned == pc = "done"
ValidInput == InRange(n, fact_form1, fact_form2)

-----------------------------------------------------------------------------
(* Claims *)

\* C1 (precedence): whenever the call returns Some((birth, death)), every
\* form-1 fact (a, b) of the input has death[a-1] < birth[b-1].
C1_Precedence ==
    (Returned /\ result.tag = "Some") =>
        \A f \in Range(fact_form1) : result.death[f[1]] < result.birth[f[2]]

\* C1 witness: a call with two form-1 facts has returned Some.
C1_Witness ==
    Returned /\ result.tag = "Some" /\ ValidInput /\ Len(fact_form1) >= 2

\* C2 (overlap): whenever the call returns Some((birth, death)), every form-2
\* fact (a, b) has birth[a-1] < death[b-1] and birth[b-1] < death[a-1].
C2_Overlap ==
    (Returned /\ result.tag = "Some") =>
        \A f \in Range(fact_form2) :
            /\ result.birth[f[1]] < result.death[f[2]]
            /\ result.birth[f[2]] < result.death[f[1]]

\* C2 witness: a call with a form-2 fact between two different persons, and a
\* form-1 fact beside it, has returned Some.
C2_Witness ==
    /\ Returned /\ result.tag = "Some" /\ ValidInput
    /\ fact_form1 # <<>>
    /\ \E f \in Range(fact_form2) : f[1] # f[2]

\* C3 (lifespan): whenever the call returns Some((birth, death)), every person
\* i in 1..n has birth[i-1] < death[i-1].
C3_Lifespan ==
    (Returned /\ result.tag = "Some") =>
        \A i \in 1 .. n : result.birth[i] < result.death[i]

\* C3 witness: a call with n >= 2 and at least one fact has returned Some.
C3_Witness ==
    /\ Returned /\ result.tag = "Some" /\ n >= 2
    /\ Len(fact_form1) + Len(fact_form2) >= 1

\* C4 (verdict correctness): on an input with all indices in 1..n the call
\* returns Some or None; it returns Some exactly when the demands of the facts
\* are acyclic, the dates of a Some result satisfy every demand, for n <= 2
\* (where all assignments are enumerated) it returns Some exactly when some
\* assignment of dates satisfies the demands, and the example input n = 6,
\* form-1 [(1,2),(3,4),(4,6)], form-2 [(2,3),(5,6)] returns Some.
C4_Verdict ==
    (Returned /\ ValidInput) =>
        LET R == Required(n, fact_form1, fact_form2)
        IN  /\ result.tag \in {"Some", "None"}
            /\ (result.tag = "Some") <=> Acyclic(R)
            /\ (result.tag = "Some") => Satisfies(DateOf(result), R)
            /\ (n <= 2) => ((result.tag = "Some") <=> ExistsAssignment(n, R))
            /\ (n = ExampleN /\ fact_form1 = ExampleForm1 /\ fact_form2 = ExampleForm2)
                  => result.tag = "Some"

\* C4 witness: a form-1 fact and a form-2 fact about the same two different
\* persons contradict each other, and the call has returned None.
C4_Witness ==
    /\ Returned /\ result.tag = "None" /\ ValidInput
    /\ Len(fact_form1) = 1 /\ Len(fact_form2) = 1
    /\ fact_form1[1][1] # fact_form1[1][2]
    /\ {fact_form2[1][1], fact_form2[1][2]} = {fact_form1[1][1], fact_form1[1][2]}

\* C5 (permutation): whenever the call returns Some((birth, death)), both arrays
\* have length n, their 2n values are exactly 1..2n without repetition, and
\* every slot was written exactly once (each label occurs once in the order).
C5_Permutation ==
    (Returned /\ result.tag = "Some") =>
        /\ Len(result.birth) = n /\ Len(result.death) = n
        /\ Range(result.birth) \cup Range(result.death) = 1 .. 2 * n
        /\ Cardinality(Range(result.birth)) = n
        /\ Cardinality(Range(result.death)) = n
        /\ Range(result.birth) \cap Range(result.death) = {}
        /\ \A e \in Events(n) :
              Cardinality({p \in 1 .. Len(topo.order) : LabelOf(g, topo.order[p]) = e}) = 1

\* C5 witness: a call with n >= 2 and facts of both forms has returned Some.
C5_Witness ==
    /\ Returned /\ result.tag = "Some" /\ n >= 2
    /\ fact_form1 # <<>> /\ fact_form2 # <<>>

\* C6 (cycle detection): with n >= 2, if the form-1 facts contain (a, b) and
\* (b, a) for two different persons a, b, the call returns None, with no
\* payload, whatever other facts are present.
C6_CycleDetected ==
    (/\ Returned /\ ValidInput /\ n >= 2
     /\ \E a, b \in 1 .. n :
           a # b /\ <<a, b>> \in Range(fact_form1) /\ <<b, a>> \in Range(fact_form1))
        => result = NoneResult

\* C6 witness: the form-1 facts are exactly (1,2) and (2,1), with n = 2, and
\* the call has returned.
C6_Witness ==
    /\ Returned /\ n = 2 /\ result.tag = "None"
    /\ fact_form1 = <<<<1, 2>>, <<2, 1>>>> /\ fact_form2 = <<>>

\* C7 (trivial consistency): with both fact lists empty the call returns Some;
\* for n = 0 the arrays are empty, for n = 1 birth[0] < death[0] and the two
\* values are 1 and 2.
C7_Trivial ==
    (Returned /\ fact_form1 = <<>> /\ fact_form2 = <<>>) =>
        /\ result.tag = "Some"
        /\ (n = 0) => (result.birth = <<>> /\ result.death = <<>>)
        /\ (n = 1) => (result.birth = <<1>> /\ result.death = <<2>>)

\* C7 witness: the call on n = 1 with no facts has returned.
C7_Witness ==
    Returned /\ n = 1 /\ fact_form1 = <<>> /\ fact_form2 = <<>> /\ result.tag = "Some"

\* C8 (idempotence of the verdict): a second call on the same input, whatever
\* ties the two sorts break, gives the verdict of the first.
C8_SameVerdict ==
    (Returned /\ prev.rel = "same" /\ ValidInput) => result.tag = prev.tag

\* C8 witness: the second call on an input whose graph leaves the sort a
\* choice (n >= 2 and a form-2 fact between different persons) has returned.
C8_Witness ==
    /\ Returned /\ prev.rel = "same" /\ ValidInput /\ n >= 2
    /\ result.tag = "Some"
    /\ \E f \in Range(fact_form2) : f[1] # f[2]

\* C9 (graph construction): when the sort is entered the graph has exactly 2n
\* nodes, one Birth(i) and one Death(i) per person, and exactly
\* n + |fact_form1| + 2 * |fact_form2| edges counted with multiplicity; and a
\* call on the input with one of its facts repeated gives the same verdict.
C9_Graph ==
    /\ (pc \in {"toposort", "map"} /\ ValidInput) =>
          /\ Len(g.nodes) = 2 * n
          /\ \A e \in Events(n) :
                Cardinality({x \in NodeIds(g) : LabelOf(g, x) = e}) = 1
          /\ Len(g.edges) = n + Len(fact_form1) + 2 * Len(fact_form2)
    /\ (Returned /\ prev.rel = "dup" /\ ValidInput) => result.tag = prev.tag

\* C9 witness: the sort is entered on an input that holds a self-pair (a, a)
\* as a form-2 fact twice.
C9_Witness ==
    /\ pc = "toposort" /\ ValidInput
    /\ \E x, y \in 1 .. Len(fact_form2) :
          x # y /\ fact_form2[x] = fact_form2[y] /\ fact_form2[x][1] = fact_form2[x][2]

\* The fact at which the running loop stands.
CurrentFact ==
    IF Len(fact_form1) >= 1 /\ k <= Len(fact_form1) /\ ~InRange(n, SubSeq(fact_form1, 1, k), <<>>)
    THEN fact_form1[k]
    ELSE fact_form2[k]

\* The sort was never entered.
NotSorted ==
    discovered = {} /\ finished = {} /\ stack = <<>> /\ finish_stack = <<>> /\ ~topo.ok

\* C10 as stated (out-of-range indices): an input with an index outside 1..n
\* makes the call end in an out-of-bounds access during edge insertion, before
\* the sort, returning neither Some nor None.
C10_OutOfBoundsAccess ==
    (Returned /\ ~ValidInput) =>
        result.tag = "panic" /\ result.kind = "oob" /\ NotSorted

\* C10 as amended: an input with an index outside 1..n makes the call panic
\* during edge insertion, before the sort, returning neither Some nor None;
\* the panic is an out-of-bounds index, or, only when the index is 0, the
\* overflow of `i - 1`.
C10_PanicWhileBuilding ==
    (Returned /\ ~ValidInput) =>
        /\ result.tag = "panic"
        /\ result.kind \in {"oob", "overflow"}
        /\ (result.kind = "overflow") => (0 \in {CurrentFact[1], CurrentFact[2]})
        /\ NotSorted
        /\ Len(g.edges) < n + Len(fact_form1) + 2 * Len(fact_form2)

\* C10 witness: a call whose only bad index is n + 1 has panicked after
\* inserting the edge of an earlier, valid fact.
C10_Witness ==
    /\ Returned /\ result.tag = "panic" /\ n >= 1
    /\ Len(g.edges) > n
    /\ \A f \in Range(fact_form1) \cup Range(fact_form2) : f[1] # 0 /\ f[2] # 0

=============================================================================
